---- MODULE Spec2Model ----
(***************************************************************************)
(* Model of automated_portfolio_health_report.py: the schema models, the   *)
(* thread analyzer, the report aggregator, the markdown renderer and the   *)
(* main run.                                                               *)
(*                                                                         *)
(* Representation.                                                         *)
(*  - An Optional[str] is None == <<>> or Some(s) == <<s>>.                *)
(*  - A raw model payload is either NotJson (text that does not parse) or  *)
(*    a JSON object with the four keys of AnalysisResult; a key the        *)
(*    payload omits carries JAbsent.  JSON values are tagged tuples.       *)
(*  - A text is the sequence of its lines ("\n".join(lines)); a line is    *)
(*    the tuple of the fragments its f-string concatenates.                *)
(*  - File "email<n>.txt" is the number n, so that sorted() is numeric     *)
(*    order; a file's content is a sequence of characters.                 *)
(***************************************************************************)
EXTENDS Integers, Sequences, FiniteSets, TLC

VARIABLES
    \* ---- the run of main() ----
    pc,          \* position of main()
    dirExists,   \* args.input_dir.exists()
    dir,         \* directory content: file number -> content (matching email*.txt)
    limit,       \* args.limit: None or Some(n)
    threads,     \* load_threads(...) result
    idx,         \* index of the loop over threads (1-based)
    results,     \* main's results list
    calls,       \* history: source_file of every chat() call, in order
    served,      \* history: payload every returned chat() call produced
    report,      \* build_report(results), None before
    jsonOut,     \* content of args.output_json: None or Some(report)
    mdOut,       \* content of args.output_md:   None or Some(text)
    abortCause,  \* why the run raised, "" when it did not
    \* ---- pure functions applied to drawn inputs ----
    fnPc,        \* "idle" | "payload" | "analyzed" | "results" | "built" | "rendered"
    fnPayload,   \* the raw model payload given to analyze_thread
    fnIdent,     \* the caller-supplied source_file
    fnResult,    \* what analyze_thread returned
    fnResults,   \* the list given to build_report
    fnReport,    \* what build_report returned
    fnText       \* what render_markdown returned

mainVars == <<pc, dirExists, dir, limit, threads, idx, results,
              calls, served, report, jsonOut, mdOut, abortCause>>
fnVars   == <<fnPc, fnPayload, fnIdent, fnResult, fnResults, fnReport, fnText>>
vars     == <<mainVars, fnVars>>

\* ------------------------------------------------------------------ bounds
MaxFiles == 3
MaxLimit == 3
MaxPayloadFlags == 2
MaxFlags == 3
MaxResults == 2

\* ------------------------------------------------------------ option type
None == <<>>
Some(v) == <<v>>
IsNone(o) == Len(o) = 0
Get(o) == o[1]

\* ------------------------------------------------------------ JSON values
JAbsent == <<"absent">>
JNull == <<"null">>
JStr(s) == <<"str", s>>
JArr(a) == <<"arr", a>>
Tag(v) == v[1]
Val(v) == v[2]
NotJson == <<"text">>
JObj(sf, pr, su, fl) ==
    <<"obj", [source_file |-> sf, project |-> pr, summary |-> su, flags |-> fl]>>
JFlag(ft, sv, ti, ev, ow) ==
    [flag_type |-> ft, severity |-> sv, title |-> ti, evidence |-> ev, owner |-> ow]

\* ----------------------------------------------------------- schema model
FlagTypes == {"unresolved_action_item", "emerging_risk"}
Severities == {"low", "medium", "high"}

AttentionFlag(ft, sv, ti, ev, ow) ==
    [flag_type |-> ft, severity |-> sv, title |-> ti, evidence |-> ev, owner |-> ow]

AnalysisResult(sf, pr, su, fl) ==
    [source_file |-> sf, project |-> pr, summary |-> su, flags |-> fl]

PortfolioReport(tt, tf, hf, rs) ==
    [total_threads |-> tt, total_flags |-> tf, high_severity_flags |-> hf, results |-> rs]

\* A required str field: present and a JSON string.
ValidStr(v) == Tag(v) = "str"
\* An Optional[str] field with default None.
ValidOptStr(v) == Tag(v) \in {"absent", "null", "str"}
ParseOptStr(v) == IF Tag(v) = "str" THEN Some(Val(v)) ELSE None
LiteralAsAnyStr(v, allowed) == Tag(v) = "str"
\* A Literal[...] field.
ValidLiteral(v, allowed) == Tag(v) = "str" /\ Val(v) \in allowed
\* evidence: List[str] with default [].
ValidStrList(v) ==
    \/ Tag(v) = "absent"
    \/ Tag(v) = "arr" /\ \A i \in 1..Len(Val(v)) : ValidStr(Val(v)[i])
ParseStrList(v) ==
    IF Tag(v) = "absent" THEN <<>> ELSE [i \in 1..Len(Val(v)) |-> Val(Val(v)[i])]

ValidFlag(f) ==
    /\ ValidLiteral(f.flag_type, FlagTypes)
    /\ ValidLiteral(f.severity, Severities)
    /\ ValidStr(f.title)
    /\ ValidStrList(f.evidence)
    /\ ValidOptStr(f.owner)
ParseFlag(f) ==
    AttentionFlag(Val(f.flag_type), Val(f.severity), Val(f.title),
                  ParseStrList(f.evidence), ParseOptStr(f.owner))

\* flags: List[AttentionFlag] with default [].
ValidFlagList(v) ==
    \/ Tag(v) = "absent"
    \/ Tag(v) = "arr" /\ \A i \in 1..Len(Val(v)) : ValidFlag(Val(v)[i])
ParseFlagList(v) ==
    IF Tag(v) = "absent" THEN <<>> ELSE [i \in 1..Len(Val(v)) |-> ParseFlag(Val(v)[i])]

\* source_file: str, required.
SourceFileMissingAsEmpty(v) == Tag(v) \in {"absent", "str"}
ValidSourceFile(v) == ValidStr(v)
ParseSourceFile(v) == IF Tag(v) = "str" THEN Val(v) ELSE ""

\* AnalysisResult.model_validate_json(payload): raises or returns the model.
Validates(p) ==
    /\ Tag(p) = "obj"
    /\ ValidSourceFile(Val(p).source_file)
    /\ ValidOptStr(Val(p).project)
    /\ ValidStr(Val(p).summary)
    /\ ValidFlagList(Val(p).flags)
model_validate_json(p) ==
    AnalysisResult(ParseSourceFile(Val(p).source_file), ParseOptStr(Val(p).project),
                   Val(Val(p).summary), ParseFlagList(Val(p).flags))

\* -------------------------------------------------------- thread analyzer
EmptySummary == ""
SentinelSummary == "Invalid LLM output: no flags extracted."

\* The except branch: the degraded result.
Degraded(source_file) == AnalysisResult(source_file, None, SentinelSummary, <<>>)

BackfillNever(parsed, source_file) == parsed
\* if not parsed.source_file: parsed.source_file = source_file
Backfill(parsed, source_file) ==
    IF parsed.source_file = ""
      THEN [parsed EXCEPT !.source_file = source_file]
      ELSE parsed

\* analyze_thread once chat() has returned `payload`.
analyze_thread(payload, source_file) ==
    IF ~Validates(payload)
      THEN Degraded(source_file)
      ELSE Backfill(model_validate_json(payload), source_file)

\* ------------------------------------------------------ report aggregator
RECURSIVE SumLenFlags(_)
\* sum(len(item.flags) for item in results)
SumLenFlags(rs) ==
    IF rs = <<>> THEN 0 ELSE Len(Head(rs).flags) + SumLenFlags(Tail(rs))

RECURSIVE CountHighIn(_)
CountHighIn(fl) ==
    IF fl = <<>> THEN 0
    ELSE (IF Head(fl).severity = "high" THEN 1 ELSE 0) + CountHighIn(Tail(fl))

RECURSIVE CountHigh(_)
\* sum(1 for item in results for flag in item.flags if flag.severity == "high")
CountHigh(rs) ==
    IF rs = <<>> THEN 0 ELSE CountHighIn(Head(rs).flags) + CountHigh(Tail(rs))

build_report_CountsFlaggedThreads(rs) ==
    PortfolioReport(Len(SelectSeq(rs, LAMBDA r : r.flags # <<>>)),
                    SumLenFlags(rs), CountHigh(rs), rs)
build_report(rs) ==
    PortfolioReport(Len(rs), SumLenFlags(rs), CountHigh(rs), rs)

\* ------------------------------------------------------ document renderer
severity_order(sev) ==
    CASE sev = "high" -> 0
      [] sev = "medium" -> 1
      [] sev = "low" -> 2
      [] OTHER -> 3

RECURSIVE PairsOf(_, _)
\* for flag in result.flags: all_flags.append((result, flag))
PairsOf(result, fl) ==
    IF fl = <<>> THEN <<>> ELSE <<[result |-> result, flag |-> Head(fl)]>> \o PairsOf(result, Tail(fl))

RECURSIVE Flatten(_)
\* for result in report.results: ...
Flatten(rs) ==
    IF rs = <<>> THEN <<>> ELSE PairsOf(Head(rs), Head(rs).flags) \o Flatten(Tail(rs))

Key(item) == severity_order(item.flag.severity)

StaysBeforeStrict(earlier, later) == Key(earlier) < Key(later)
\* A stable sort leaves an earlier element before a later one unless its key
\* is larger.
StaysBefore(earlier, later) == Key(earlier) <= Key(later)

RECURSIVE InsertStable(_, _)
\* The place of item, the latest so far, in the sorted list of the earlier ones.
InsertStable(sorted, item) ==
    IF sorted = <<>> THEN <<item>>
    ELSE IF StaysBefore(Head(sorted), item)
           THEN <<Head(sorted)>> \o InsertStable(Tail(sorted), item)
           ELSE <<item>> \o sorted

RECURSIVE SortFrom(_, _)
SortFrom(sorted, rest) ==
    IF rest = <<>> THEN sorted ELSE SortFrom(InsertStable(sorted, Head(rest)), Tail(rest))

\* all_flags.sort(key=...): list.sort is a stable sort.
SortBySeverity(all_flags) == SortFrom(<<>>, all_flags)

DigitStr == <<"0", "1", "2", "3", "4", "5", "6", "7", "8", "9">>
RECURSIVE ToStr(_)
\* str(n) of an f-string, n >= 0: the decimal digits.
ToStr(n) ==
    IF n < 10 THEN <<DigitStr[n + 1]>> ELSE ToStr(n \div 10) \o <<DigitStr[(n % 10) + 1]>>

\* str.title() on a severity.
Title(sev) ==
    CASE sev = "high" -> "High"
      [] sev = "medium" -> "Medium"
      [] sev = "low" -> "Low"
      [] OTHER -> sev

NoFlagsLine == <<"- No attention flags detected.">>
EmptyLine == <<"">>

HeaderLines(rep) ==
    << <<"# Portfolio Health Report">>,
       EmptyLine,
       <<"## Summary">>,
       <<"- Threads analyzed: ">> \o ToStr(rep.total_threads),
       <<"- Total attention flags: ">> \o ToStr(rep.total_flags),
       <<"- High severity flags: ">> \o ToStr(rep.high_severity_flags),
       EmptyLine,
       <<"## Attention Flags">> >>

HeadingLine(sev) == <<"### ", Title(sev), " Priority">>

\* The lines of one flag.
FlagLines(result, flag) ==
    << <<"- **", flag.title, "**">>,
       <<"  - Type: ", flag.flag_type>>,
       <<"  - Source: ", result.source_file>>,
       <<"  - Summary: ", result.summary>> >>
    \o (IF ~IsNone(flag.owner) /\ Get(flag.owner) # ""
          THEN << <<"  - Owner: ", Get(flag.owner)>> >> ELSE <<>>)
    \o << <<"  - Evidence:">> >>
    \o [i \in 1..Len(flag.evidence) |-> <<"    - ", flag.evidence[i]>>]

HeadingAlways(severity, current_severity) == TRUE
\* if flag.severity != current_severity
NeedsHeading(severity, current_severity) == severity # current_severity

RECURSIVE BodyLines(_, _)
\* The loop over the sorted pairs; current_severity is None or Some(severity).
BodyLines(items, current_severity) ==
    IF items = <<>> THEN <<>>
    ELSE LET result == Head(items).result
             flag == Head(items).flag
         IN (IF NeedsHeading(Some(flag.severity), current_severity)
               THEN <<EmptyLine, HeadingLine(flag.severity), EmptyLine>>
               ELSE <<>>)
            \o FlagLines(result, flag)
            \o BodyLines(Tail(items), Some(flag.severity))

render_markdown(rep) ==
    LET all_flags == SortBySeverity(Flatten(rep.results))
    IN IF rep.total_flags = 0
         THEN HeaderLines(rep) \o <<NoFlagsLine, EmptyLine>>
         ELSE HeaderLines(rep) \o BodyLines(all_flags, None) \o <<EmptyLine>>

\* ------------------------------------------- inputs of the pure functions
\* Sequences over S of length at most n.
SeqsUpTo(S, n) == UNION {[1..k -> S] : k \in 0..n}

Idents == {"", "email1.txt"}

\* Raw flags a model may return: conforming ones, ones with a value outside
\* an enumerated set, one without title, one with every field given.
RawFlags ==
    {JFlag(JStr(ft), JStr(sv), JStr("T"), JAbsent, JAbsent) :
        ft \in {"emerging_risk", "blocker"}, sv \in {"high", "low", "critical"}}
    \cup {JFlag(JStr("emerging_risk"), JStr("high"), JAbsent, JAbsent, JNull),
          JFlag(JStr("unresolved_action_item"), JStr("medium"), JStr("U"),
                JArr(<<JStr("quote")>>), JStr("Ann"))}

Payloads ==
    {NotJson} \cup
    {JObj(sf, pr, su, fl) :
        sf \in {JAbsent, JNull, JStr(""), JStr("model.txt")},
        pr \in {JAbsent, JNull, JStr("Apollo")},
        su \in {JAbsent, JStr(""), JStr("Two open points.")},
        fl \in {JAbsent, JNull} \cup {JArr(a) : a \in SeqsUpTo(RawFlags, MaxPayloadFlags)}}

\* Typed flags: every severity twice, under two titles; one with owner and
\* evidence, one with an empty owner.
FlagPool ==
    {AttentionFlag("emerging_risk", "high", "A", <<>>, None),
     AttentionFlag("unresolved_action_item", "high", "B", <<"q3">>, Some("")),
     AttentionFlag("emerging_risk", "medium", "A", <<>>, None),
     AttentionFlag("unresolved_action_item", "medium", "C", <<"q1", "q2">>, Some("Ann")),
     AttentionFlag("emerging_risk", "low", "A", <<>>, None),
     AttentionFlag("emerging_risk", "low", "B", <<>>, None)}

SourceNames == <<"email1.txt", "email2.txt", "email3.txt", "email4.txt">>
SummaryTexts == <<"First.", "Second.", "Third.", "Fourth.">>

RECURSIVE SumOf(_)
SumOf(lens) == IF lens = <<>> THEN 0 ELSE Head(lens) + SumOf(Tail(lens))
\* The list of Len(lens) results, result i holding the next lens[i] flags of fl.
ResultsFrom(fl, lens) ==
    [i \in 1..Len(lens) |->
        AnalysisResult(SourceNames[i], None, SummaryTexts[i],
                       SubSeq(fl, SumOf(SubSeq(lens, 1, i - 1)) + 1,
                                  SumOf(SubSeq(lens, 1, i))))]

\* ------------------------------------------ specification: pure functions
MainIdle ==
    /\ pc = "idle" /\ dirExists = FALSE /\ dir = <<>> /\ limit = None
    /\ threads = <<>> /\ idx = 0 /\ results = <<>> /\ calls = <<>> /\ served = <<>>
    /\ report = None /\ jsonOut = None /\ mdOut = None /\ abortCause = ""

FnInit ==
    /\ MainIdle
    /\ fnResult = None /\ fnReport = None /\ fnText = <<>>
    /\ \/ /\ fnPc = "payload"
          /\ fnPayload \in Payloads
          /\ fnIdent \in Idents
          /\ fnResults = <<>>
       \/ /\ fnPc = "results"
          /\ fnPayload = NotJson
          /\ fnIdent = ""
          /\ \E lens \in SeqsUpTo(0..MaxFlags, MaxResults) :
                /\ SumOf(lens) <= MaxFlags
                /\ \E fl \in [1..SumOf(lens) -> FlagPool] :
                      fnResults = ResultsFrom(fl, lens)

FnAnalyze ==
    /\ fnPc = "payload"
    /\ fnResult' = analyze_thread(fnPayload, fnIdent)
    /\ fnPc' = "analyzed"
    /\ UNCHANGED <<mainVars, fnPayload, fnIdent, fnResults, fnReport, fnText>>

FnBuild ==
    /\ fnPc = "results"
    /\ fnReport' = build_report(fnResults)
    /\ fnPc' = "built"
    /\ UNCHANGED <<mainVars, fnPayload, fnIdent, fnResult, fnResults, fnText>>

FnRender ==
    /\ fnPc = "built"
    /\ fnText' = render_markdown(fnReport)
    /\ fnPc' = "rendered"
    /\ UNCHANGED <<mainVars, fnPayload, fnIdent, fnResult, fnResults, fnReport>>

FnNext == FnAnalyze \/ FnBuild \/ FnRender

FnSpec == FnInit /\ [][FnNext]_vars

\* ------------------------------------------------------------ main's run
FileNames == <<"email1.txt", "email2.txt", "email3.txt", "email4.txt", "email5.txt">>
\* file_path.name
NameOf(f) == FileNames[f]

Whitespace == {" ", "\n", "\t"}
RECURSIVE LStrip(_)
LStrip(t) == IF t # <<>> /\ Head(t) \in Whitespace THEN LStrip(Tail(t)) ELSE t
RECURSIVE RStrip(_)
RStrip(t) ==
    IF t # <<>> /\ t[Len(t)] \in Whitespace THEN RStrip(SubSeq(t, 1, Len(t) - 1)) ELSE t
\* str.strip()
Strip(t) == RStrip(LStrip(t))

SkipsOnlyEmpty(text) == text = <<>>
\* if not text.strip(): continue
Skips(text) == Strip(text) = <<>>

RECURSIVE Sorted(_)
\* sorted(...) of a set of files: ascending.
Sorted(S) ==
    IF S = {} THEN <<>>
    ELSE LET m == CHOOSE x \in S : \A y \in S : x <= y
         IN <<m>> \o Sorted(S \ {m})

\* files[:n], negative n counting from the end.
SliceTo(files, n) ==
    IF n >= 0
      THEN SubSeq(files, 1, IF n < Len(files) THEN n ELSE Len(files))
      ELSE SubSeq(files, 1, IF Len(files) + n > 0 THEN Len(files) + n ELSE 0)

load_threads(input_dir, lim) ==
    LET files == Sorted(DOMAIN input_dir)
    IN IF ~IsNone(lim) THEN SliceTo(files, Get(lim)) ELSE files

\* report.model_dump_json(): the fields in their declared order.
model_dump_json(rep) ==
    << <<"total_threads", ToStr(rep.total_threads)>>,
       <<"total_flags", ToStr(rep.total_flags)>>,
       <<"high_severity_flags", ToStr(rep.high_severity_flags)>>,
       <<"results", rep.results>> >>

Contents == {<<>>, <<" ", "\n">>, <<" ", "a", "\n">>}
Dirs == UNION {[D -> Contents] : D \in SUBSET (1..MaxFiles)}
Limits == {None} \cup {Some(n) : n \in (-1)..MaxLimit}

\* What chat() may return in a run: text that is no JSON, a conforming payload
\* with an empty source_file and one high flag, a conforming payload without
\* flags.
MainPayloads ==
    {NotJson,
     JObj(JStr(""), JNull, JStr("One risk."),
          JArr(<<JFlag(JStr("emerging_risk"), JStr("high"), JStr("T"), JAbsent, JAbsent)>>)),
     JObj(JStr("model.txt"), JAbsent, JStr("Nothing open."), JArr(<<>>))}

FnIdle ==
    /\ fnPc = "idle" /\ fnPayload = NotJson /\ fnIdent = "" /\ fnResult = None
    /\ fnResults = <<>> /\ fnReport = None /\ fnText = <<>>

Init ==
    /\ FnIdle
    /\ pc = "start"
    /\ dirExists \in BOOLEAN
    /\ dir \in Dirs
    /\ limit \in Limits
    /\ ~dirExists => (dir = <<>> /\ limit = None)
    /\ threads = <<>> /\ idx = 0 /\ results = <<>> /\ calls = <<>> /\ served = <<>>
    /\ report = None /\ jsonOut = None /\ mdOut = None /\ abortCause = ""

Abort(cause) == pc' = "aborted" /\ abortCause' = cause

\* if not input_dir.exists(): raise FileNotFoundError
MissingInput ==
    /\ pc = "start" /\ ~dirExists
    /\ Abort("missing_input")
    /\ UNCHANGED <<dirExists, dir, limit, threads, idx, results, calls, served,
                   report, jsonOut, mdOut, fnVars>>

\* threads = load_threads(input_dir, args.limit); results = []
LoadThreads ==
    /\ pc = "start" /\ dirExists
    /\ threads' = load_threads(dir, limit)
    /\ idx' = 1
    /\ pc' = "loop"
    /\ UNCHANGED <<dirExists, dir, limit, results, calls, served, report, jsonOut,
                   mdOut, abortCause, fnVars>>

\* text = file_path.read_text(); a whitespace-only text: continue.
SkipFile ==
    /\ pc = "loop" /\ idx <= Len(threads)
    /\ Skips(dir[threads[idx]])
    /\ idx' = idx + 1
    /\ UNCHANGED <<pc, dirExists, dir, limit, threads, results, calls, served,
                   report, jsonOut, mdOut, abortCause, fnVars>>

\* text = file_path.read_text(); analyze_thread(...) enters chat(...).
CallModel ==
    /\ pc = "loop" /\ idx <= Len(threads)
    /\ ~Skips(dir[threads[idx]])
    /\ calls' = Append(calls, NameOf(threads[idx]))
    /\ pc' = "chat"
    /\ UNCHANGED <<dirExists, dir, limit, threads, idx, results, served, report,
                   jsonOut, mdOut, abortCause, fnVars>>

\* file_path.read_text() raises (unreadable file, bytes that are not UTF-8).
ReadFails ==
    /\ pc = "loop" /\ idx <= Len(threads)
    /\ Abort("read")
    /\ UNCHANGED <<dirExists, dir, limit, threads, idx, results, calls, served,
                   report, jsonOut, mdOut, fnVars>>

ChatReturnsAndWritesJson ==
    /\ pc = "chat"
    /\ \E payload \in MainPayloads :
          /\ results' = Append(results, analyze_thread(payload, NameOf(threads[idx])))
          /\ served' = Append(served, payload)
    /\ jsonOut' = Some(model_dump_json(build_report(results')))
    /\ idx' = idx + 1
    /\ pc' = "loop"
    /\ UNCHANGED <<dirExists, dir, limit, threads, calls, report, mdOut,
                   abortCause, fnVars>>

\* chat() returns; the rest of analyze_thread; results.append(result).
ChatReturns ==
    /\ pc = "chat"
    /\ \E payload \in MainPayloads :
          /\ results' = Append(results, analyze_thread(payload, NameOf(threads[idx])))
          /\ served' = Append(served, payload)
    /\ idx' = idx + 1
    /\ pc' = "loop"
    /\ UNCHANGED <<dirExists, dir, limit, threads, calls, report, jsonOut, mdOut,
                   abortCause, fnVars>>

\* chat() raises (no server, unknown model): nothing in analyze_thread or main
\* catches it.
ChatRaises ==
    /\ pc = "chat"
    /\ Abort("model_call")
    /\ UNCHANGED <<dirExists, dir, limit, threads, idx, results, calls, served,
                   report, jsonOut, mdOut, fnVars>>

\* report = build_report(results)
BuildReport ==
    /\ pc = "loop" /\ idx > Len(threads)
    /\ report' = Some(build_report(results))
    /\ pc' = "write_json"
    /\ UNCHANGED <<dirExists, dir, limit, threads, idx, results, calls, served,
                   jsonOut, mdOut, abortCause, fnVars>>

\* args.output_json.write_text(report.model_dump_json(indent=2))
WriteJson ==
    /\ pc = "write_json"
    /\ jsonOut' = Some(model_dump_json(Get(report)))
    /\ pc' = "write_md"
    /\ UNCHANGED <<dirExists, dir, limit, threads, idx, results, calls, served,
                   report, mdOut, abortCause, fnVars>>

\* args.output_json cannot be opened for writing.
WriteJsonFails ==
    /\ pc = "write_json"
    /\ Abort("write_json")
    /\ UNCHANGED <<dirExists, dir, limit, threads, idx, results, calls, served,
                   report, jsonOut, mdOut, fnVars>>

\* args.output_md.write_text(render_markdown(report))
WriteMd ==
    /\ pc = "write_md"
    /\ mdOut' = Some(render_markdown(Get(report)))
    /\ pc' = "done"
    /\ UNCHANGED <<dirExists, dir, limit, threads, idx, results, calls, served,
                   report, jsonOut, abortCause, fnVars>>

\* args.output_md cannot be opened for writing.
WriteMdFails ==
    /\ pc = "write_md"
    /\ Abort("write_md")
    /\ UNCHANGED <<dirExists, dir, limit, threads, idx, results, calls, served,
                   report, jsonOut, mdOut, fnVars>>

Next ==
    \/ MissingInput \/ LoadThreads \/ SkipFile \/ CallModel \/ ReadFails
    \/ ChatReturns \/ ChatRaises \/ BuildReport
    \/ WriteJson \/ WriteJsonFails \/ WriteMd \/ WriteMdFails

Spec == Init /\ [][Next]_vars

\* =================================================================== claims
\* ------------------------------------------------- thread analyzer (FnSpec)
Analyzed == fnPc = "analyzed"
Fields(p) == Val(p)

\* A raw flag that the schema of AttentionFlag rejects.
RejectedFlag(f) ==
    \/ Tag(f.flag_type) # "str"
    \/ Val(f.flag_type) \notin {"unresolved_action_item", "emerging_risk"}
    \/ Tag(f.severity) # "str"
    \/ Val(f.severity) \notin {"low", "medium", "high"}
    \/ Tag(f.title) # "str"
    \/ Tag(f.evidence) \notin {"absent", "arr"}
    \/ Tag(f.owner) \notin {"absent", "null", "str"}

\* The payload apart from its source_file fails parsing or the schema.
RejectedApartFromSourceFile(p) ==
    \/ Tag(p) # "obj"
    \/ Tag(Fields(p).summary) # "str"
    \/ Tag(Fields(p).project) \notin {"absent", "null", "str"}
    \/ Tag(Fields(p).flags) \notin {"absent", "arr"}
    \/ /\ Tag(Fields(p).flags) = "arr"
       /\ \E i \in 1..Len(Val(Fields(p).flags)) : RejectedFlag(Val(Fields(p).flags)[i])

\* The payload fails parsing or schema validation.
Rejected(p) ==
    \/ RejectedApartFromSourceFile(p)
    \/ Tag(Fields(p).source_file) # "str"

DegradedResultFor(ident) ==
    [source_file |-> ident, project |-> <<>>,
     summary |-> "Invalid LLM output: no flags extracted.", flags |-> <<>>]

\* The flags, project and summary of result r are those the payload p gives.
FlagAsGiven(f, g) ==
    /\ f.flag_type = Val(g.flag_type)
    /\ f.severity = Val(g.severity)
    /\ f.title = Val(g.title)
    /\ f.owner = (IF Tag(g.owner) = "str" THEN <<Val(g.owner)>> ELSE <<>>)
    /\ IF Tag(g.evidence) = "arr"
         THEN /\ Len(f.evidence) = Len(Val(g.evidence))
              /\ \A k \in 1..Len(f.evidence) : f.evidence[k] = Val(Val(g.evidence)[k])
         ELSE f.evidence = <<>>
RestAsGiven(r, p) ==
    /\ r.summary = Val(Fields(p).summary)
    /\ r.project = (IF Tag(Fields(p).project) = "str" THEN <<Val(Fields(p).project)>> ELSE <<>>)
    /\ IF Tag(Fields(p).flags) = "arr"
         THEN /\ Len(r.flags) = Len(Val(Fields(p).flags))
              /\ \A i \in 1..Len(r.flags) : FlagAsGiven(r.flags[i], Val(Fields(p).flags)[i])
         ELSE r.flags = <<>>

\* C1: for every identifier S and every payload that fails parsing or schema
\* validation, analyze_thread returns the result with source_file = S,
\* project = None, the sentinel summary and no flags.
C1_RejectedPayloadDegrades ==
    (Analyzed /\ Rejected(fnPayload)) => fnResult = DegradedResultFor(fnIdent)

\* C1 witness: a payload whose only defect is a severity outside the
\* enumerated set was analyzed for a non-empty identifier.
C1_Witness ==
    /\ Analyzed
    /\ fnIdent = "email1.txt"
    /\ Tag(fnPayload) = "obj"
    /\ Fields(fnPayload).source_file = JStr("model.txt")
    /\ Fields(fnPayload).summary = JStr("Two open points.")
    /\ Fields(fnPayload).flags =
         JArr(<<JFlag(JStr("emerging_risk"), JStr("critical"), JStr("T"), JAbsent, JAbsent)>>)
    /\ fnResult.summary = "Invalid LLM output: no flags extracted."
    /\ fnResult.source_file = "email1.txt"

\* C5: a conforming payload with source_file "" comes back with source_file
\* replaced by the caller's identifier and project, summary and flags as
\* given; a conforming payload with a non-empty source_file comes back
\* unchanged.
C5_BackfillEmptySourceFile ==
    (Analyzed /\ ~Rejected(fnPayload)) =>
        /\ RestAsGiven(fnResult, fnPayload)
        /\ fnResult.source_file =
             (IF Val(Fields(fnPayload).source_file) = ""
                THEN fnIdent ELSE Val(Fields(fnPayload).source_file))

\* C5 witness: a conforming payload with source_file "" and two flags was
\* analyzed for email1.txt.
C5_Witness ==
    /\ Analyzed /\ ~Rejected(fnPayload)
    /\ Fields(fnPayload).source_file = JStr("")
    /\ fnIdent = "email1.txt"
    /\ fnResult.source_file = "email1.txt"
    /\ Len(fnResult.flags) = 2
    /\ fnResult.project = <<"Apollo">>

\* C8 as stated: every result of analyze_thread has a non-empty summary and,
\* for a non-empty identifier, a non-empty source_file.
C8_SummaryNeverEmpty ==
    Analyzed =>
        /\ fnResult.summary # ""
        /\ (fnIdent # "" => fnResult.source_file # "")

\* C8 amended: the summary is the non-empty sentinel on the degraded path and
\* the payload's own summary, empty or not, on the success path; for a
\* non-empty identifier source_file is non-empty on both paths.
C8_SummaryPresent ==
    Analyzed =>
        /\ Rejected(fnPayload) => fnResult.summary # ""
        /\ ~Rejected(fnPayload) => fnResult.summary = Val(Fields(fnPayload).summary)
        /\ (fnIdent # "" => fnResult.source_file # "")

\* C8 witness: a conforming payload whose summary is "" was analyzed and the
\* result carries the empty summary.
C8_Witness ==
    /\ Analyzed /\ ~Rejected(fnPayload)
    /\ Fields(fnPayload).summary = JStr("")
    /\ fnIdent = "email1.txt"
    /\ fnResult.summary = ""
    /\ fnResult.source_file # ""

OmitsSourceFile(p) ==
    /\ ~RejectedApartFromSourceFile(p)
    /\ Tag(Fields(p).source_file) = "absent"

\* C10 as stated: a payload that conforms but for an omitted source_file is
\* backfilled with the identifier and keeps its project, summary and flags.
C10_OmittedSourceFileBackfilled ==
    (Analyzed /\ OmitsSourceFile(fnPayload)) =>
        /\ fnResult.source_file = fnIdent
        /\ RestAsGiven(fnResult, fnPayload)

\* C10 amended: a payload that conforms but for an omitted source_file fails
\* validation and yields the degraded result, its project, summary and flags
\* discarded.
C10_OmittedSourceFileDegrades ==
    (Analyzed /\ OmitsSourceFile(fnPayload)) => fnResult = DegradedResultFor(fnIdent)

\* C10 witness: a payload with project, summary and a flag but no source_file
\* was analyzed and none of the three survived.
C10_Witness ==
    /\ Analyzed /\ OmitsSourceFile(fnPayload)
    /\ Fields(fnPayload).project = JStr("Apollo")
    /\ Fields(fnPayload).summary = JStr("Two open points.")
    /\ Tag(Fields(fnPayload).flags) = "arr"
    /\ Len(Val(Fields(fnPayload).flags)) = 1
    /\ fnIdent = "email1.txt"
    /\ fnResult.flags = <<>>
    /\ fnResult.project = <<>>

\* ------------------------------------ aggregator and renderer (FnSpec)
Built == fnPc \in {"built", "rendered"}
Rendered == fnPc = "rendered"

\* The flags of a list of results, each named by <<result index, flag index>>.
FlagIdx(rs) == UNION {{<<i, j>> : j \in 1..Len(rs[i].flags)} : i \in 1..Len(rs)}
FlagAt(rs, q) == rs[q[1]].flags[q[2]]
\* q comes before r in the flattened sequence.
FlatBefore(q, r) == q[1] < r[1] \/ (q[1] = r[1] /\ q[2] < r[2])
Tier(sev) == CASE sev = "high" -> 1 [] sev = "medium" -> 2 [] sev = "low" -> 3
TierName(sev) == CASE sev = "high" -> "High" [] sev = "medium" -> "Medium" [] sev = "low" -> "Low"
\* The place of flag q in a stable sort by tier of the flattened sequence.
StablePlace(rs, q) ==
    1 + Cardinality({r \in FlagIdx(rs) :
            \/ Tier(FlagAt(rs, r).severity) < Tier(FlagAt(rs, q).severity)
            \/ /\ Tier(FlagAt(rs, r).severity) = Tier(FlagAt(rs, q).severity)
               /\ FlatBefore(r, q)})

\* The lines of a text that start with the given fragment, in order.
LinesStarting(text, first) ==
    SelectSeq([k \in 1..Len(text) |-> k], LAMBDA k : text[k][1] = first)
TitleLines(text) == LinesStarting(text, "- **")
HeadingLines(text) == LinesStarting(text, "### ")
\* The last section heading above line k.
HeadingAbove(text, k) ==
    LET above == {h \in 1..(k - 1) : text[h][1] = "### "}
    IN IF above = {} THEN <<>> ELSE text[CHOOSE h \in above : \A g \in above : g <= h]

\* C3: build_report(results) has total_threads = len(results), total_flags =
\* the number of flags, high_severity_flags = the number of high flags, and
\* results = the input in the same order, the empty input included.
C3_ReportCounts ==
    Built =>
        /\ fnReport.total_threads = Len(fnResults)
        /\ fnReport.total_flags = Cardinality(FlagIdx(fnResults))
        /\ fnReport.high_severity_flags =
             Cardinality({q \in FlagIdx(fnResults) : FlagAt(fnResults, q).severity = "high"})
        /\ fnReport.results = fnResults

\* C3 witness: a report built from a result without flags followed by a result
\* with three flags, one of them high.
C3_Witness ==
    /\ fnPc = "built"
    /\ Len(fnResults) = 2
    /\ fnResults[1].flags = <<>>
    /\ Len(fnResults[2].flags) = 3
    /\ fnReport.total_threads = 2
    /\ fnReport.total_flags = 3
    /\ fnReport.high_severity_flags = 1

\* C4: with total_flags > 0 the flags appear in the rendered text in the order
\* of a stable sort by severity (high, medium, low) of the flattened sequence:
\* the entry at each place is the flag the stable sort puts there, under the
\* heading of its severity.
C4_StableSeverityOrder ==
    (Rendered /\ fnReport.total_flags > 0) =>
        LET titles == TitleLines(fnText)
        IN /\ Len(titles) = Cardinality(FlagIdx(fnResults))
           /\ \A q \in FlagIdx(fnResults) :
                LET k == titles[StablePlace(fnResults, q)]
                    f == FlagAt(fnResults, q)
                    r == fnResults[q[1]]
                IN /\ fnText[k] = <<"- **", f.title, "**">>
                   /\ fnText[k + 1] = <<"  - Type: ", f.flag_type>>
                   /\ fnText[k + 2] = <<"  - Source: ", r.source_file>>
                   /\ fnText[k + 3] = <<"  - Summary: ", r.summary>>
                   /\ HeadingAbove(fnText, k) = <<"### ", TierName(f.severity), " Priority">>

\* C4 witness: a text rendered from flags given as low, high, low over two
\* results, the two low flags under different titles.
C4_Witness ==
    /\ Rendered
    /\ Len(fnResults) = 2
    /\ Len(fnResults[1].flags) = 1 /\ Len(fnResults[2].flags) = 2
    /\ fnResults[1].flags[1].severity = "low" /\ fnResults[1].flags[1].title = "B"
    /\ fnResults[2].flags[1].severity = "high"
    /\ fnResults[2].flags[2].severity = "low" /\ fnResults[2].flags[2].title = "A"
    /\ Len(TitleLines(fnText)) = 3

HasTier(rs, sev) == \E q \in FlagIdx(rs) : FlagAt(rs, q).severity = sev
Occurrences(text, line) == Cardinality({k \in 1..Len(text) : text[k] = line})

\* C9: each severity heading appears exactly once if its tier has a rendered
\* flag and never otherwise, after every flag of the tiers before it and
\* before every flag of its own and later tiers; with total_flags = 0 the text
\* has the "No attention flags detected." line, no heading and no flag entry.
C9_SectionHeadings ==
    Rendered =>
        IF fnReport.total_flags = 0
          THEN /\ Occurrences(fnText, <<"- No attention flags detected.">>) = 1
               /\ HeadingLines(fnText) = <<>>
               /\ TitleLines(fnText) = <<>>
          ELSE /\ Len(HeadingLines(fnText)) =
                    Cardinality({sev \in {"high", "medium", "low"} : HasTier(fnResults, sev)})
               /\ \A sev \in {"high", "medium", "low"} :
                    LET heading == <<"### ", TierName(sev), " Priority">>
                    IN IF ~HasTier(fnResults, sev)
                         THEN Occurrences(fnText, heading) = 0
                         ELSE /\ Occurrences(fnText, heading) = 1
                              /\ LET h == CHOOSE k \in 1..Len(fnText) : fnText[k] = heading
                                     before == {q \in FlagIdx(fnResults) :
                                                  Tier(FlagAt(fnResults, q).severity) < Tier(sev)}
                                 IN Cardinality({k \in 1..h : fnText[k][1] = "- **"})
                                      = Cardinality(before)

\* C9 witness: a text rendered from two high flags and one low flag given low
\* first, the medium tier empty.
C9_Witness ==
    /\ Rendered
    /\ Cardinality(FlagIdx(fnResults)) = 3
    /\ ~HasTier(fnResults, "medium")
    /\ FlagAt(fnResults, <<1, 1>>).severity = "low"
    /\ Cardinality({q \in FlagIdx(fnResults) : FlagAt(fnResults, q).severity = "high"}) = 2
    /\ Len(HeadingLines(fnText)) = 2

\* ------------------------------------------------------ main's run (Spec)
JsonWritten == jsonOut # <<>>
MdWritten == mdOut # <<>>
Ended == pc \in {"done", "aborted"}

\* C2 as stated: a failure of the per-thread extraction, the model call
\* included, never aborts the run.
C2_ExtractionFailuresAbsorbed ==
    ~(pc = "aborted" /\ abortCause = "model_call")

\* Every selected file was read and analyzed and the report was built from
\* all the results.
AllAnalyzedAndBuilt ==
    /\ idx = Len(threads) + 1
    /\ Len(results) = Len(calls)
    /\ report # <<>>
    /\ report[1].results = results
    /\ report[1].total_threads = Len(results)

\* No document is written before the full report exists, and a document
\* holds the full report.
WritesOnlyAfterReport ==
    /\ (JsonWritten \/ MdWritten) => AllAnalyzedAndBuilt
    /\ JsonWritten => jsonOut[1][4] = <<"results", results>>

\* C6 as stated: no document is written before the full report is built, an
\* aborted run leaves neither document written, and a run that ended wrote
\* both documents or none.
C6_BothOrNone ==
    /\ WritesOnlyAfterReport
    /\ pc = "aborted" => (~JsonWritten /\ ~MdWritten)
    /\ Ended => (JsonWritten <=> MdWritten)

\* C6 amended: no document is written before the full report is built; a run
\* that aborts before the first write (missing input directory, failed read,
\* failed model call) leaves neither document written; the markdown document
\* is never written without the JSON document, and a run that fails at the
\* markdown write leaves the JSON document alone.
C6_WritesAfterReport ==
    /\ WritesOnlyAfterReport
    /\ (pc = "aborted" /\ abortCause \in {"missing_input", "read", "model_call"})
          => (~JsonWritten /\ ~MdWritten)
    /\ MdWritten => JsonWritten
    /\ (pc = "aborted" /\ abortCause = "write_md") => (JsonWritten /\ ~MdWritten)

\* C6 witness: a run that analyzed two threads and wrote the JSON document
\* failed at the markdown write.
C6_Witness ==
    /\ pc = "aborted" /\ abortCause = "write_md"
    /\ Len(results) = 2
    /\ JsonWritten /\ ~MdWritten

\* A content with a character that is no whitespace.
HasContent(text) == \E k \in 1..Len(text) : text[k] \notin {" ", "\n", "\t"}
\* The selected files with content, in the order selected.
ToAnalyze == SelectSeq(threads, LAMBDA f : HasContent(dir[f]))

\* The last call has not returned: it is in flight, or it raised.
CallUnanswered == pc = "chat" \/ (pc = "aborted" /\ abortCause = "model_call")

\* C7: the model is called for exactly the selected files that are not empty
\* or whitespace-only, one at a time in sorted-filename order, and results
\* (and the report) hold one result per such file in that order; a
\* whitespace-only file causes no call and is not counted.
C7_CallsAreTheFilesWithContent ==
    /\ \A i, j \in 1..Len(threads) : i < j => threads[i] < threads[j]
    /\ Len(calls) <= Len(ToAnalyze)
    /\ \A i \in 1..Len(calls) : calls[i] = FileNames[ToAnalyze[i]]
    /\ Len(results) = Len(calls) - (IF CallUnanswered THEN 1 ELSE 0)
    /\ Len(served) = Len(results)
    /\ \A i \in 1..Len(results) : results[i] = analyze_thread(served[i], calls[i])
    /\ (pc = "loop" /\ idx <= Len(threads)) =>
          Len(calls) = Len(SelectSeq(SubSeq(threads, 1, idx - 1), LAMBDA f : HasContent(dir[f])))
    /\ report # <<>> =>
          /\ Len(calls) = Len(ToAnalyze)
          /\ report[1].results = results
          /\ report[1].total_threads = Len(ToAnalyze)

\* C7 witness: a finished run over three selected files, the second of them
\* whitespace-only, called the model for the first and the third.
C7_Witness ==
    /\ pc = "done"
    /\ threads = <<1, 2, 3>>
    /\ dir[2] = <<" ", "\n">>
    /\ calls = <<"email1.txt", "email3.txt">>
    /\ Len(results) = 2
    /\ report[1].total_threads = 2

====
